---- MODULE Spec2Model ----
(***************************************************************************)
(* Model of src/src/download-video-as-mp3.tsx: the Raycast command that    *)
(* downloads a YouTube video's audio track as MP3 through yt-dlp.          *)
(*                                                                         *)
(* Texts (URLs, paths, process output, notification lines) are sequences   *)
(* of lexemes.  A lexeme is a single character wherever the code inspects  *)
(* characters (the progress pattern), and otherwise a run of characters    *)
(* that the code treats alike (a path, a host label, a literal message).   *)
(***************************************************************************)
EXTENDS Integers, Sequences, FiniteSets, TLC

VARIABLES
    \* host environment
    platform,            \* os.platform()
    ytdlPathPreference,  \* getPreferenceValues().ytdlPath ("" when unset)
    whereResult,         \* what the system PATH lookup for yt-dlp answers
    fsys,                \* the paths that exist on disk (fs.existsSync)
    storage,             \* LocalStorage item "lastOutputDir" (NoItem = absent)
    savedAtStart,        \* that item as the previous session left it
    \* component state (Command)
    phase,               \* "start" before the first render, then "mounted"
    ytdlPath,            \* useMemo(getytdlPath)
    missingExecutable,   \* useMemo(!existsSync(ytdlPath) ? "yt-dlp" : "")
    url,                 \* useState("")
    title,               \* useState<string | null>(null)
    outputDir,           \* useState("")
    filePickerKey,       \* useState(0)
    \* asynchronous work in flight
    tasks,               \* effect closures awaiting a LocalStorage operation
    fetches,             \* title fetches (fetchTitle closures)
    downloads,           \* downloads (handleDownload closures: toast + process)
    \* what the user and the host have seen so far
    nPicks,              \* folder picker changes so far
    nUrlChanges,         \* URL field changes so far
    nFetched,            \* title fetches whose callback has run
    lastFetch,           \* the title fetch whose callback ran last
    nSubmits,            \* form submissions so far
    hudCount,            \* showHUD calls so far
    lastHud              \* text of the last showHUD call

vars == <<platform, ytdlPathPreference, whereResult, fsys, storage, savedAtStart, phase,
          ytdlPath, missingExecutable, url, title, outputDir, filePickerKey,
          tasks, fetches, downloads, nPicks, nUrlChanges, nFetched, lastFetch,
          nSubmits, hudCount, lastHud>>

envVars      == <<platform, ytdlPathPreference, whereResult, savedAtStart>>
folderVars   == <<storage, outputDir, filePickerKey, tasks, nPicks>>
titleVars    == <<url, title, fetches, nUrlChanges, nFetched, lastFetch>>
downloadVars == <<downloads, nSubmits, hudCount, lastHud>>

----------------------------------------------------------------------------
\* Bounds of the model

\* folder picker changes explored per session
MaxPicks == 2
\* URL field changes explored per session
MaxUrlChanges == 2
\* form submissions explored per session
MaxSubmits == 2

----------------------------------------------------------------------------
\* Texts

\* the empty string
Empty == <<>>

\* JavaScript null (title) / undefined (a LocalStorage item that is absent);
\* no text operation produces it
Null == <<"<null>">>
NoItem == <<"<undefined>">>

\* the lexemes String.prototype.trim removes and \s matches
Whitespace == {" ", "\n", "\r"}

\* the lexemes holding a character outside [\w\s\-:/.?=&]
UnsafeLexemes == {"<", "(", ")", "\\", "%", "{", "}", "\"", ","}

RECURSIVE TrimLeft(_)
TrimLeft(s) ==
    IF s # <<>> /\ Head(s) \in Whitespace THEN TrimLeft(Tail(s)) ELSE s

RECURSIVE TrimRight(_)
TrimRight(s) ==
    IF s # <<>> /\ s[Len(s)] \in Whitespace
    THEN TrimRight(SubSeq(s, 1, Len(s) - 1))
    ELSE s

\* String.prototype.trim
Trim(s) == TrimRight(TrimLeft(s))

\* s.split("\n")[0]: the text before the first line feed
RECURSIVE SplitLF0(_)
SplitLF0(s) ==
    IF s = <<>> \/ Head(s) = "\n" THEN <<>> ELSE <<Head(s)>> \o SplitLF0(Tail(s))

\* input.replace(/[^\w\s\-:/.?=&]/g, "")
sanitizeInput(input) == SelectSeq(input, LAMBDA c : c \notin UnsafeLexemes)

----------------------------------------------------------------------------
\* Executable locator

PrefPath == <<"/opt/custom/yt-dlp">>
Homebrew == <<"/opt/homebrew/bin/yt-dlp">>
UsrBin   == <<"/usr/bin/yt-dlp">>
PathHit1 == <<"C:/tools/yt-dlp.exe">>
PathHit2 == <<"C:/python/Scripts/yt-dlp.exe">>

ExePaths == {PrefPath, Homebrew, UsrBin, PathHit1, PathHit2}

Platforms == {"darwin", "win32", "linux"}

Preferences == {Empty, PrefPath}

\* answers of the PATH lookup: not found (exit status 1), one hit, two hits
\* (one line per hit, each line ended by CR LF as where.exe writes them, or
\* by LF alone)
WhereResults ==
    { [status |-> 1, stdout |-> Empty],
      [status |-> 0, stdout |-> PathHit1 \o <<"\r", "\n">>],
      [status |-> 0, stdout |-> PathHit1 \o <<"\r", "\n">> \o PathHit2 \o <<"\r", "\n">>],
      [status |-> 0, stdout |-> PathHit1 \o <<"\n">> \o PathHit2 \o <<"\n">>] }

\* fs.existsSync
existsSync(p, fs) == p \in fs

\* the expression assigned to defaultPath; threw: execSync raised (the lookup
\* exited with a non-zero status)
defaultPath(plat, where) ==
    IF plat = "darwin" THEN [threw |-> FALSE, path |-> Homebrew]
    ELSE IF plat = "win32"
         THEN IF where.status # 0
              THEN [threw |-> TRUE, path |-> Empty]
              ELSE [threw |-> FALSE, path |-> SplitLF0(Trim(where.stdout))]
         ELSE [threw |-> FALSE, path |-> UsrBin]

getytdlPath(pref, plat, where, fs) ==
    IF pref # Empty /\ existsSync(pref, fs) THEN pref
    ELSE LET d == defaultPath(plat, where)
         IN  IF ~d.threw /\ existsSync(d.path, fs) THEN d.path ELSE Empty

\* the value of the missingExecutable memo for a resolved path
missingExecutableOf(p, fs) == IF ~existsSync(p, fs) THEN <<"yt-dlp">> ELSE Empty

----------------------------------------------------------------------------
\* Output directory: the load effect and the auto-save effect

Dir1 == <<"/home/u/Music">>
Dir2 == <<"/home/u/My ", "(", "Music", ")">>

Dirs == {Dir1, Dir2}

\* the closure the auto-save effect leaves awaiting LocalStorage for a value
\* of outputDir; the existence check runs before the await
AutoSaveTask(dir, fs) ==
    IF dir = Empty
    THEN [kind |-> "saveEmpty", op |-> "removeItem", arg |-> Empty, pc |-> "req", got |-> NoItem]
    ELSE IF existsSync(dir, fs)
         THEN [kind |-> "saveSet", op |-> "setItem", arg |-> dir, pc |-> "req", got |-> NoItem]
         ELSE [kind |-> "saveClear", op |-> "removeItem", arg |-> Empty, pc |-> "req", got |-> NoItem]

\* the closure the load effect leaves awaiting LocalStorage.getItem
LoadTask == [kind |-> "load", op |-> "getItem", arg |-> Empty, pc |-> "req", got |-> NoItem]

\* the load effect's second await: removeItem of a saved folder that is gone
LoadRemoveTask ==
    [kind |-> "loadRemove", op |-> "removeItem", arg |-> Empty, pc |-> "req", got |-> NoItem]

RemoveAt(s, i) == SubSeq(s, 1, i - 1) \o SubSeq(s, i + 1, Len(s))

----------------------------------------------------------------------------
\* First render: the memos are computed, then the three effects run once

Mount ==
    /\ phase = "start"
    /\ phase' = "mounted"
    /\ ytdlPath' = getytdlPath(ytdlPathPreference, platform, whereResult, fsys)
    /\ missingExecutable' = missingExecutableOf(ytdlPath', fsys)
    \* load effect, then auto-save effect for outputDir = ""
    /\ tasks' = tasks \o <<LoadTask, AutoSaveTask(outputDir, fsys)>>
    \* title effect for url = "": setTitle(null)
    /\ title' = Null
    /\ UNCHANGED <<envVars, fsys, storage, url, outputDir, filePickerKey, fetches,
                   nPicks, nUrlChanges, nFetched, lastFetch, downloadVars>>

\* an auto-save effect that would run after every setOutputDir and see the
\* value of the render before it
TasksAfterSet_Stale(ts, dir) == Append(ts, AutoSaveTask(outputDir, fsys))

\* setOutputDir(dir) followed by the auto-save effect it triggers when the
\* value changes: the tasks after it, given the tasks before
TasksAfterSet(ts, dir) ==
    IF dir = outputDir THEN ts ELSE Append(ts, AutoSaveTask(dir, fsys))

\* Form.FilePicker onChange: setOutputDir(files[0] || "")
PickFolder(dir) ==
    /\ phase = "mounted"
    /\ nPicks < MaxPicks
    /\ nPicks' = nPicks + 1
    /\ outputDir' = dir
    /\ tasks' = TasksAfterSet(tasks, dir)
    /\ UNCHANGED <<envVars, fsys, storage, phase, ytdlPath, missingExecutable,
                   filePickerKey, titleVars, downloadVars>>

\* the host carries out the LocalStorage operation task i is waiting for; the
\* effects await nothing between them, so operations in flight together take
\* effect in either order
StorageApply(i) ==
    /\ i \in 1..Len(tasks)
    /\ tasks[i].pc = "req"
    /\ storage' = CASE tasks[i].op = "getItem" -> storage
                    [] tasks[i].op = "setItem" -> tasks[i].arg
                    [] tasks[i].op = "removeItem" -> NoItem
    /\ tasks' = [tasks EXCEPT ![i].pc = "resp", ![i].got = storage]
    /\ UNCHANGED <<envVars, fsys, phase, ytdlPath, missingExecutable, outputDir,
                   filePickerKey, nPicks, titleVars, downloadVars>>

\* the awaited promise of task i resolves and its closure runs on
TaskResume(i) ==
    /\ i \in 1..Len(tasks)
    /\ tasks[i].pc = "resp"
    /\ LET t == tasks[i]
           rest == RemoveAt(tasks, i)
       IN  CASE t.kind = "load" ->
                   IF t.got # NoItem /\ t.got # Empty /\ existsSync(t.got, fsys)
                   THEN /\ outputDir' = t.got
                        /\ tasks' = TasksAfterSet(rest, t.got)
                        /\ UNCHANGED filePickerKey
                   ELSE IF t.got # NoItem /\ t.got # Empty
                        THEN /\ tasks' = Append(rest, LoadRemoveTask)
                             /\ UNCHANGED <<outputDir, filePickerKey>>
                        ELSE /\ tasks' = rest
                             /\ UNCHANGED <<outputDir, filePickerKey>>
              [] t.kind = "loadRemove" ->
                   /\ tasks' = rest
                   /\ UNCHANGED <<outputDir, filePickerKey>>
              [] t.kind = "saveEmpty" ->
                   /\ filePickerKey' = filePickerKey + 1
                   /\ tasks' = rest
                   /\ UNCHANGED outputDir
              [] t.kind = "saveSet" ->
                   /\ tasks' = rest
                   /\ UNCHANGED <<outputDir, filePickerKey>>
              [] t.kind = "saveClear" ->
                   /\ outputDir' = Empty
                   /\ filePickerKey' = filePickerKey + 1
                   /\ tasks' = TasksAfterSet(rest, Empty)
    /\ UNCHANGED <<envVars, fsys, storage, phase, ytdlPath, missingExecutable,
                   nPicks, titleVars, downloadVars>>

----------------------------------------------------------------------------
\* Specification of the executable locator: every host environment, then the
\* first render

InitComponent ==
    /\ phase = "start"
    /\ ytdlPath = Empty
    /\ missingExecutable = Empty
    /\ url = Empty
    /\ title = Null
    /\ outputDir = Empty
    /\ filePickerKey = 0
    /\ tasks = <<>>
    /\ fetches = <<>>
    /\ downloads = <<>>
    /\ nPicks = 0
    /\ nUrlChanges = 0
    /\ nFetched = 0
    /\ lastFetch = [n |-> 0]
    /\ nSubmits = 0
    /\ hudCount = 0
    /\ lastHud = Empty

InitLocator ==
    /\ platform \in Platforms
    /\ ytdlPathPreference \in Preferences
    /\ whereResult \in WhereResults
    /\ fsys \in SUBSET ExePaths
    /\ storage = NoItem
    /\ savedAtStart = storage
    /\ InitComponent

NextLocator == Mount

SpecLocator == InitLocator /\ [][NextLocator]_vars

\* the first line of a text whose lines end in LF or CR LF
FirstLine(s) == TrimRight(SplitLF0(s))

\* the well-known install path of a platform; the code names none for win32
WellKnownPath(plat) ==
    IF plat = "darwin" THEN Homebrew ELSE IF plat = "linux" THEN UsrBin ELSE Empty

RECURSIVE FirstExisting(_, _)
FirstExisting(candidates, fs) ==
    IF candidates = <<>> THEN Empty
    ELSE IF Head(candidates) # Empty /\ Head(candidates) \in fs THEN Head(candidates)
    ELSE FirstExisting(Tail(candidates), fs)

\* C9: on every platform the locator returns the first candidate that exists
\* among the configured path, the platform's well-known install path and the
\* first output line of the PATH lookup, and the empty string when none does.
C9_LocatorOrder ==
    phase = "mounted" =>
        ytdlPath = FirstExisting(<<ytdlPathPreference, WellKnownPath(platform),
                                   IF whereResult.status = 0
                                   THEN FirstLine(whereResult.stdout) ELSE Empty>>, fsys)

----------------------------------------------------------------------------
\* Specification of the output directory: a session that starts with any saved
\* folder, on a disk where any of the folders may be gone

InitFolder ==
    /\ platform = "linux"
    /\ ytdlPathPreference = Empty
    /\ whereResult \in {w \in WhereResults : w.status # 0}
    /\ fsys \in SUBSET Dirs
    /\ storage \in {NoItem} \cup Dirs
    /\ savedAtStart = storage
    /\ InitComponent

NextFolder ==
    \/ Mount
    \/ \E dir \in Dirs \cup {Empty} : PickFolder(dir)
    \/ \E i \in 1..Len(tasks) : StorageApply(i)
    \/ \E i \in 1..Len(tasks) : TaskResume(i)

SpecFolder == InitFolder /\ [][NextFolder]_vars

\* C5: a folder saved by the previous session is, once the load effect and the
\* auto-save effect of the new session have finished, the live selection and
\* the saved value when it still exists, and gone from both when it does not.
C5_RoundTrip ==
    (phase = "mounted" /\ tasks = <<>> /\ nPicks = 0 /\ savedAtStart \in Dirs) =>
        IF savedAtStart \in fsys
        THEN outputDir = savedAtStart /\ storage = savedAtStart
        ELSE outputDir = Empty /\ storage = NoItem

\* the value of outputDir the auto-save closure t was started for is still the
\* live value (no later change has superseded it)
StillLive(t) ==
    CASE t.kind = "saveSet" -> outputDir = t.arg
      [] t.kind = "saveClear" -> outputDir # Empty /\ ~existsSync(outputDir, fsys)
      [] t.kind = "saveEmpty" -> outputDir = Empty
      [] OTHER -> FALSE

\* task i is the only run of the auto-save effect still in flight
OnlyRun(i) ==
    \A j \in (1..Len(tasks)) \ {i} : tasks[j].kind \in {"load", "loadRemove"}

\* C12: when the run of the auto-save effect that a change of the output
\* directory triggered is over (the value is still the live one and no other
\* run of the effect is in flight), (a) a
\* value that exists on disk is the saved value, (b) a value that does not
\* exist has left the live value empty, the saved value removed and the reset
\* key increased, (c) an empty value has left the saved value removed and the
\* reset key increased; in each case the folder displayed then is empty or
\* exists on disk.
C12_SelfHealing ==
    [][\A i \in 1..Len(tasks) :
         (tasks[i].pc = "resp" /\ StillLive(tasks[i]) /\ OnlyRun(i) /\ TaskResume(i)) =>
            /\ tasks[i].kind = "saveSet" =>
                  storage' = outputDir /\ outputDir' = outputDir
            /\ tasks[i].kind = "saveClear" =>
                  outputDir' = Empty /\ storage' = NoItem /\ filePickerKey' > filePickerKey
            /\ tasks[i].kind = "saveEmpty" =>
                  storage' = NoItem /\ filePickerKey' > filePickerKey
            /\ outputDir' = Empty \/ existsSync(outputDir', fsys')]_vars

\* C13: whatever the directory changes (the initial load among them) and the
\* order in which the LocalStorage operations complete, once the form is
\* mounted and no storage operation is in flight the saved value is the live
\* output directory when that is non-empty and is absent when it is empty.
C13_SavedIsLive ==
    (phase = "mounted" /\ tasks = <<>>) =>
        storage = (IF outputDir = Empty THEN NoItem ELSE outputDir)

\* the number of steps (a storage operation completing, a closure resuming) a
\* closure in flight can still take, those of the one closure it may start
\* included
StepsLeft(t) ==
    (IF t.pc = "req" THEN 1 ELSE 0)
    + (IF t.kind \in {"load", "saveClear"} THEN 3 ELSE 1)

RECURSIVE Measure(_)
Measure(ts) == IF ts = <<>> THEN 0 ELSE StepsLeft(Head(ts)) + Measure(Tail(ts))

\* C19: the auto-save effect settles. Every step that is not a user's change
\* of the folder (or the first render) uses up one of the steps the closures
\* in flight have left, a change adds at most the four steps of a chain of two
\* runs, nothing moves once no closure is in flight, and the reset key never
\* decreases.
C19_AutoSaveSettles ==
    [][/\ filePickerKey' >= filePickerKey
       /\ (nPicks' = nPicks /\ phase' = phase) =>
              /\ tasks # <<>>
              /\ Measure(tasks') < Measure(tasks)
       /\ nPicks' = nPicks + 1 => Measure(tasks') <= Measure(tasks) + 4]_vars

\* one change, to a folder that does not exist, has settled: after the mount
\* run, the run that cleared the folder and the run that clearing triggered,
\* nothing is in flight, the folder is empty and the key was bumped three times
C19_Witness ==
    /\ nPicks = 1
    /\ tasks = <<>>
    /\ outputDir = Empty
    /\ filePickerKey = 3

----------------------------------------------------------------------------
\* URL field and title fetch

\* new URL(s) succeeds on a scheme followed by a non-empty host; the host runs
\* up to the first lexeme that opens the path and holds no forbidden character
Schemes == {"https://"}
PathOpeners == {"/watch?v=abc", "/abc", "/"}
ForbiddenInHost == {"<", " ", "%"}

RECURSIVE HostOf(_)
HostOf(rest) ==
    IF rest = <<>> \/ Head(rest) \in PathOpeners THEN <<>>
    ELSE <<Head(rest)>> \o HostOf(Tail(rest))

\* new URL(urlString): ok is FALSE where the constructor throws
ParseURL(urlString) ==
    IF urlString = <<>> \/ Head(urlString) \notin Schemes
    THEN [ok |-> FALSE, hostname |-> <<>>]
    ELSE LET h == HostOf(Tail(urlString))
         IN  IF h = <<>> \/ \E i \in 1..Len(h) : h[i] \in ForbiddenInHost
             THEN [ok |-> FALSE, hostname |-> <<>>]
             ELSE [ok |-> TRUE, hostname |-> h]

\* String.prototype.includes for a needle that is one lexeme
Includes(text, needle) == \E i \in 1..Len(text) : text[i] = needle

\* isYouTubeUrl that searches the whole string instead of the parsed host
isYouTubeUrl_WholeString(urlString) ==
    Includes(urlString, "youtube.com") \/ Includes(urlString, "youtu.be")

isYouTubeUrl(urlString) ==
    IF urlString = Empty THEN FALSE
    ELSE LET parsed == ParseURL(urlString)
         IN  IF parsed.ok
             THEN Includes(parsed.hostname, "youtube.com") \/ Includes(parsed.hostname, "youtu.be")
             ELSE FALSE

\* what the user may put in the URL field
UrlInputs ==
    { Empty,
      <<"https://", "www.", "youtube.com", "/watch?v=abc">>,
      <<"https://", "youtu.be", "/abc">>,
      <<"https://", "youtube.com", "/watch?v=abc", "%", "20">>,
      <<"https://", "example.org", "/watch?v=abc">>,
      <<"https://", "example.org", "/", "youtube.com">>,
      <<"https://", "<", "youtube.com">>,
      <<"www.", "youtube.com", "/watch?v=abc">>,
      <<"hello">> }

\* what a yt-dlp query may write to stdout: nothing, a blank line, a title
\* line, a line of JSON (keys and values are lexemes of their own), a line that
\* is not JSON
Stdouts ==
    { Empty,
      <<"\n">>,
      <<"T", "\n">>,
      <<"{", "title", "T", "uploader", "U", "}", "\n">>,
      <<"{", "title", "T", "}", "\n">>,
      <<"{", "title", "T", "uploader_id", "I", "channel", "C", "}", "\n">>,
      <<"{", "title", "T", "channel", "C", "}", "\n">>,
      <<"{", "uploader", "U", "}", "\n">> }

\* how a query may end: exit code 0 with any output, exit code 1 with none
QueryResults ==
    {[code |-> 0, stdout |-> o] : o \in Stdouts} \cup {[code |-> 1, stdout |-> Empty]}

\* the command line of the title query, word by word
TitleCommand(exe, safeUrl) == <<exe, <<"--get-title">>, <<"--no-playlist">>, safeUrl>>

\* the guard of the title effect: TRUE where fetchTitle is called
TitleEffectFetches(u) ==
    ~(u = Empty \/ ~isYouTubeUrl(u) \/ ~existsSync(ytdlPath, fsys))

\* Form.TextField onChange: setUrl, then the title effect for the new value
ChangeUrl(u) ==
    /\ phase = "mounted"
    /\ u # url
    /\ nUrlChanges < MaxUrlChanges
    /\ nUrlChanges' = nUrlChanges + 1
    /\ url' = u
    /\ IF TitleEffectFetches(u)
       THEN /\ fetches' = Append(fetches, [url |-> u, exe |-> ytdlPath, pc |-> "toast",
                                           queries |-> <<>>])
            /\ UNCHANGED title
       ELSE /\ title' = Null
            /\ UNCHANGED fetches
    /\ UNCHANGED <<envVars, fsys, phase, ytdlPath, missingExecutable, folderVars,
                   nFetched, lastFetch, downloadVars>>

\* fetchTitle after its toast is shown: the query is sanitized and executed
FetchSpawn(i) ==
    /\ i \in 1..Len(fetches)
    /\ fetches[i].pc = "toast"
    /\ fetches' = [fetches EXCEPT
                     ![i].pc = "running",
                     ![i].queries = <<TitleCommand(fetches[i].exe, sanitizeInput(fetches[i].url))>>]
    /\ UNCHANGED <<envVars, fsys, phase, ytdlPath, missingExecutable, folderVars,
                   url, title, nUrlChanges, nFetched, lastFetch, downloadVars>>

\* a callback that would drop the result of a fetch whose URL is no longer the
\* one in the field
FetchDone_DropStale(i, result) ==
    /\ i \in 1..Len(fetches)
    /\ fetches[i].pc = "running"
    /\ title' = IF fetches[i].url # url THEN title
                ELSE IF result.code # 0 \/ Trim(result.stdout) = Empty
                THEN Null
                ELSE Trim(result.stdout)
    /\ fetches' = RemoveAt(fetches, i)
    /\ nFetched' = nFetched + 1
    /\ lastFetch' = [n |-> nFetched + 1, url |-> fetches[i].url, code |-> result.code,
                     stdout |-> result.stdout, queries |-> fetches[i].queries]
    /\ UNCHANGED <<envVars, fsys, phase, ytdlPath, missingExecutable, folderVars,
                   url, nUrlChanges, downloadVars>>

\* the callback of exec: (error, stdout) => ...
FetchDone(i, result) ==
    /\ i \in 1..Len(fetches)
    /\ fetches[i].pc = "running"
    /\ title' = IF result.code # 0 \/ Trim(result.stdout) = Empty
                THEN Null
                ELSE Trim(result.stdout)
    /\ fetches' = RemoveAt(fetches, i)
    /\ nFetched' = nFetched + 1
    /\ lastFetch' = [n |-> nFetched + 1, url |-> fetches[i].url, code |-> result.code,
                     stdout |-> result.stdout, queries |-> fetches[i].queries]
    /\ UNCHANGED <<envVars, fsys, phase, ytdlPath, missingExecutable, folderVars,
                   url, nUrlChanges, downloadVars>>

\* a file or folder is deleted behind the command's back
Unlink(p) ==
    /\ p \in fsys
    /\ fsys' = fsys \ {p}
    /\ UNCHANGED <<envVars, storage, phase, ytdlPath, missingExecutable, outputDir,
                   filePickerKey, tasks, nPicks, titleVars, downloadVars>>

\* the text of the Title line of the form
DisplayedTitle ==
    IF title # Null THEN title
    ELSE IF isYouTubeUrl(url) THEN <<"Fetching title...">>
    ELSE <<"Paste the video link below">>

\* a session whose first render and mount effects are over, on a host where
\* yt-dlp may or may not be installed and nothing was saved
InitMounted ==
    /\ platform = "linux"
    /\ ytdlPathPreference = Empty
    /\ whereResult \in {w \in WhereResults : w.status # 0}
    /\ savedAtStart = NoItem
    /\ phase = "mounted"
    /\ ytdlPath = getytdlPath(ytdlPathPreference, platform, whereResult, fsys)
    /\ missingExecutable = missingExecutableOf(ytdlPath, fsys)
    /\ filePickerKey = 1
    /\ tasks = <<>>
    /\ fetches = <<>>
    /\ downloads = <<>>
    /\ nPicks = 0
    /\ nUrlChanges = 0
    /\ nFetched = 0
    /\ lastFetch = [n |-> 0]
    /\ nSubmits = 0
    /\ hudCount = 0
    /\ lastHud = Empty

InitTitle ==
    /\ fsys \in SUBSET {UsrBin}
    /\ url = Empty
    /\ title = Null
    /\ outputDir = Empty
    /\ storage = NoItem
    /\ InitMounted

NextTitle ==
    \/ \E u \in UrlInputs : ChangeUrl(u)
    \/ \E i \in 1..Len(fetches) : FetchSpawn(i)
    \/ \E i \in 1..Len(fetches) : \E r \in QueryResults : FetchDone(i, r)
    \/ \E p \in fsys : Unlink(p)

SpecTitle == InitTitle /\ [][NextTitle]_vars

\* a line of output that is a JSON object, and the value of one of its keys
\* ("" when the key is absent)
IsJsonObject(line) == Len(line) >= 2 /\ line[1] = "{" /\ line[Len(line)] = "}"

JsonField(line, key) ==
    LET at == {i \in 2..(Len(line) - 2) : i % 2 = 0 /\ line[i] = key}
    IN  IF at = {} THEN "" ELSE line[(CHOOSE i \in at : \A j \in at : i <= j) + 1]

\* the title the specification composes from a line of JSON metadata (as in
\* src/CHANGELOG.md lines 210-218)
ComposedTitle(line) ==
    LET videoTitle == JsonField(line, "title")
        uploader == IF JsonField(line, "uploader") # "" THEN JsonField(line, "uploader")
                    ELSE IF JsonField(line, "uploader_id") # "" THEN JsonField(line, "uploader_id")
                    ELSE JsonField(line, "channel")
    IN  IF videoTitle = "" THEN Null
        ELSE IF uploader = "" THEN <<videoTitle>>
        ELSE <<uploader, " - ", videoTitle>>

\* C6: when the metadata query exits with code 0 and its first output line is a
\* JSON object, the title becomes "<uploader> - <title>" with the first
\* non-empty of uploader, uploader_id, channel, just "<title>" when there is no
\* uploader, and null (the placeholder is displayed) when there is no title.
C6_JsonTitle ==
    [][(/\ nFetched' = nFetched + 1
        /\ lastFetch'.code = 0
        /\ IsJsonObject(FirstLine(lastFetch'.stdout)))
       => title' = ComposedTitle(FirstLine(lastFetch'.stdout))]_vars

\* the option a query passes to yt-dlp
FlagOf(cmd) == cmd[2]

\* C7: when the metadata query ends with exit code 1 and empty stdout, the
\* fetch issues exactly two more queries before its title is settled, the
\* plain-text title query and then the plain-text uploader query.
C7_TwoFallbackQueries ==
    [][(/\ nFetched' = nFetched + 1
        /\ lastFetch'.code = 1
        /\ lastFetch'.stdout = Empty)
       => /\ Len(lastFetch'.queries) = 3
          /\ FlagOf(lastFetch'.queries[2]) = <<"--get-title">>
          /\ FlagOf(lastFetch'.queries[3]) = <<"--get-uploader">>]_vars

\* C11: when the metadata query exits with code 0 and the first line of its
\* output does not parse as JSON, the fetch falls back to the plain-text title
\* query and then the plain-text uploader query, as it does on a non-zero
\* exit, before its title is settled.
C11_ParseFailureFallback ==
    [][(/\ nFetched' = nFetched + 1
        /\ lastFetch'.code = 0
        /\ Trim(lastFetch'.stdout) # Empty
        /\ ~IsJsonObject(FirstLine(lastFetch'.stdout)))
       => /\ Len(lastFetch'.queries) = 3
          /\ FlagOf(lastFetch'.queries[2]) = <<"--get-title">>
          /\ FlagOf(lastFetch'.queries[3]) = <<"--get-uploader">>]_vars

\* C8: on every change of the URL field, an empty URL, a URL that does not
\* parse, a host without youtube.com and youtu.be, or a missing executable
\* resets the title to null and starts no fetch; a URL that parses with such a
\* host passes the shape check and, the executable present, starts exactly one
\* fetch, for that URL.
C8_UrlChange ==
    [][url' # url =>
        LET parsed == ParseURL(url')
            shaped == /\ parsed.ok
                      /\ \/ Includes(parsed.hostname, "youtube.com")
                         \/ Includes(parsed.hostname, "youtu.be")
            present == ytdlPath \in fsys
        IN  /\ (url' = Empty \/ ~shaped \/ ~present) =>
                   title' = Null /\ fetches' = fetches /\ nFetched' = nFetched
            /\ shaped => isYouTubeUrl(url')
            /\ (shaped /\ present) =>
                   /\ Len(fetches') = Len(fetches) + 1
                   /\ SubSeq(fetches', 1, Len(fetches)) = fetches
                   /\ fetches'[Len(fetches')].url = url'
                   /\ fetches'[Len(fetches')].pc = "toast"]_vars

\* a fetch started by an earlier, well-shaped URL is in flight, and the field
\* now holds text that does not parse, which reset the title
C8_Witness ==
    /\ nUrlChanges = 2
    /\ url # Empty
    /\ ~ParseURL(url).ok
    /\ title = Null
    /\ Len(fetches) = 1
    /\ ParseURL(fetches[1].url).ok
    /\ fetches[1].pc = "running"

\* the title the exec callback sets for a finished query
FetchedTitle(f) ==
    IF f.code # 0 \/ Trim(f.stdout) = Empty THEN Null ELSE Trim(f.stdout)

\* C14: title fetches are never cancelled and the last write wins. A change of
\* the URL leaves every fetch in flight as it is; a fetch that completes sets
\* the title to its own result whatever the URL field holds by then; and the
\* title changes on no other step than a completion or a reset by a URL change.
C14_LastWriteWins ==
    [][/\ url' # url =>
            /\ Len(fetches') >= Len(fetches)
            /\ \A i \in 1..Len(fetches) : fetches'[i] = fetches[i]
       /\ nFetched' = nFetched + 1 => title' = FetchedTitle(lastFetch')
       /\ title' # title =>
            \/ nFetched' = nFetched + 1
            \/ url' # url /\ title' = Null]_vars

\* two fetches have completed, the one for the earlier URL last: the field
\* holds the newer URL and the title is the earlier URL's result
C14_Witness ==
    /\ nFetched = 2
    /\ fetches = <<>>
    /\ isYouTubeUrl(url)
    /\ lastFetch.url # url
    /\ title # Null
    /\ title = FetchedTitle(lastFetch)

----------------------------------------------------------------------------
\* Download

Digits == {"0", "1", "2", "3", "4", "5", "6", "7", "8", "9"}

\* no match of a pattern (String.prototype.match returned null)
NoMatch == <<>>

\* /(\d{1,3}\.\d)%/ matches at position i with k leading digits
PatternAt(text, i, k) ==
    /\ i + k + 2 <= Len(text)
    /\ \A j \in i..(i + k - 1) : text[j] \in Digits
    /\ text[i + k] = "."
    /\ text[i + k + 1] \in Digits
    /\ text[i + k + 2] = "%"

\* data.toString().match(/(\d{1,3}\.\d)%/): the captured group of the leftmost
\* match, the digits taken greedily
ProgressMatch(text) ==
    LET hits == {h \in (1..Len(text)) \X (1..3) : PatternAt(text, h[1], h[2])}
    IN  IF hits = {} THEN NoMatch
        ELSE LET i == CHOOSE i \in {h[1] : h \in hits} : \A h \in hits : i <= h[1]
                 k == CHOOSE k \in {h[2] : h \in {g \in hits : g[1] = i}} :
                          \A h \in hits : h[1] = i => h[2] <= k
             IN  SubSeq(text, i, i + k + 1)

\* what yt-dlp may write in one chunk, character by character
Chunks ==
    { <<"1", "2", ".", "3", "%">>,
      <<"4", "5", ".", "0", "%">>,
      <<"5", ".", "0", "%", " ", "9", ".", "0", "%">>,
      <<"1", "0", "0", "%">>,
      <<"E", "T", "A">> }

\* exit code null: the process was ended by a signal
NullCode == -1

ExitCodes == {0, 137, NullCode}

HudExecutable == <<"yt-dlp", " not found! Set the path in preferences.">>
HudUrl        == <<"Paste the video link!">>
HudFolder     == <<"Select a valid folder!">>

OutputName == <<"%(title)s.%(ext)s">>

\* path.join(dir, name)
pathJoin(dir, name) ==
    IF dir = Empty THEN name
    ELSE IF dir[Len(dir)] = "/" THEN dir \o name
    ELSE dir \o <<"/">> \o name

\* the command line of the download, word by word
DownloadCommand(exe, outputTemplate, safeUrl) ==
    <<exe, <<"--no-playlist">>, <<"-x">>, <<"--audio-format">>, <<"mp3">>,
      <<"--audio-quality">>, <<"320k">>, <<"-o">>, outputTemplate, safeUrl>>

\* the closure of a submission that passed the checks: its captured state, its
\* toast and its child process
NewDownload ==
    LET safeUrl == sanitizeInput(url)
        safeOutput == sanitizeInput(outputDir)
        outputTemplate == pathJoin(safeOutput, OutputName)
    IN  [url |-> url,
         outputDir |-> outputDir,
         toast |-> [style |-> "Animated",
                    title |-> IF title # Null /\ title # Empty THEN title
                              ELSE <<"Downloading MP3...">>,
                    message |-> <<"0", "%">>],
         command |-> DownloadCommand(ytdlPath, outputTemplate, safeUrl),
         state |-> "spawned",
         code |-> NullCode,
         errored |-> FALSE]

\* if (missingExecutable)
ExecutableMissing == missingExecutable # Empty

\* a submit handler that would refuse to start a download while another one
\* is in progress
handleDownload_Guarded ==
    /\ phase = "mounted"
    /\ nSubmits < MaxSubmits
    /\ nSubmits' = nSubmits + 1
    /\ IF ExecutableMissing
       THEN /\ lastHud' = HudExecutable
            /\ hudCount' = hudCount + 1
            /\ UNCHANGED downloads
       ELSE IF url = Empty
       THEN /\ lastHud' = HudUrl
            /\ hudCount' = hudCount + 1
            /\ UNCHANGED downloads
       ELSE IF outputDir = Empty \/ ~existsSync(outputDir, fsys)
       THEN /\ lastHud' = HudFolder
            /\ hudCount' = hudCount + 1
            /\ UNCHANGED downloads
       ELSE IF \E d \in 1..Len(downloads) : downloads[d].toast.style = "Animated"
       THEN UNCHANGED <<downloads, lastHud, hudCount>>
       ELSE /\ downloads' = Append(downloads, NewDownload)
            /\ UNCHANGED <<lastHud, hudCount>>
    /\ UNCHANGED <<envVars, fsys, phase, ytdlPath, missingExecutable, folderVars,
                   titleVars>>

\* Action.SubmitForm onSubmit
handleDownload ==
    /\ phase = "mounted"
    /\ nSubmits < MaxSubmits
    /\ nSubmits' = nSubmits + 1
    /\ IF ExecutableMissing
       THEN /\ lastHud' = HudExecutable
            /\ hudCount' = hudCount + 1
            /\ UNCHANGED downloads
       ELSE IF url = Empty
       THEN /\ lastHud' = HudUrl
            /\ hudCount' = hudCount + 1
            /\ UNCHANGED downloads
       ELSE IF outputDir = Empty \/ ~existsSync(outputDir, fsys)
       THEN /\ lastHud' = HudFolder
            /\ hudCount' = hudCount + 1
            /\ UNCHANGED downloads
       ELSE /\ downloads' = Append(downloads, NewDownload)
            /\ UNCHANGED <<lastHud, hudCount>>
    /\ UNCHANGED <<envVars, fsys, phase, ytdlPath, missingExecutable, folderVars,
                   titleVars>>

\* the toast after the stdout "data" listener ran on a chunk
ToastAfterData(toast, chunk) ==
    IF ProgressMatch(chunk) # NoMatch
    THEN [toast EXCEPT !.message = ProgressMatch(chunk) \o <<"%">>]
    ELSE toast

\* the toast after the "exit" listener ran
ToastAfterExit(toast, code) ==
    IF code = 0
    THEN [toast EXCEPT !.style = "Success", !.title = <<"Download complete!">>,
                       !.message = <<"MP3 saved!">>]
    ELSE [toast EXCEPT !.style = "Failure", !.title = <<"Download failed">>]

Streaming(d) == downloads[d].state \in {"spawned", "running", "exited"}

StateAfterData(d) == IF downloads[d].state = "spawned" THEN "running" ELSE downloads[d].state

\* a chunk arrives on the child's stdout
StdoutData(d, chunk) ==
    /\ d \in 1..Len(downloads)
    /\ Streaming(d)
    /\ downloads' = [downloads EXCEPT ![d].toast = ToastAfterData(@, chunk),
                                      ![d].state = StateAfterData(d)]
    /\ UNCHANGED <<envVars, fsys, phase, ytdlPath, missingExecutable, folderVars,
                   titleVars, nSubmits, hudCount, lastHud>>

\* the toast after a chunk arrived on stderr, which has no listener
ToastAfterStderr(toast, chunk) == toast

\* a chunk arrives on the child's stderr
StderrData(d, chunk) ==
    /\ d \in 1..Len(downloads)
    /\ Streaming(d)
    /\ downloads' = [downloads EXCEPT ![d].toast = ToastAfterStderr(@, chunk),
                                      ![d].state = StateAfterData(d)]
    /\ UNCHANGED <<envVars, fsys, phase, ytdlPath, missingExecutable, folderVars,
                   titleVars, nSubmits, hudCount, lastHud>>

\* the child ends: "exit" is emitted with its code (null after a signal)
ProcessExit(d, code) ==
    /\ d \in 1..Len(downloads)
    /\ downloads[d].state \in {"spawned", "running"}
    /\ downloads' = [downloads EXCEPT ![d].toast = ToastAfterExit(@, code),
                                      ![d].state = "exited",
                                      ![d].code = code]
    /\ UNCHANGED <<envVars, fsys, phase, ytdlPath, missingExecutable, folderVars,
                   titleVars, nSubmits, hudCount, lastHud>>

\* the child could not be spawned: "error" is emitted and "exit" never is; the
\* only "error" listener is the one exec installs, which here does nothing
ProcessError(d) ==
    /\ d \in 1..Len(downloads)
    /\ downloads[d].state = "spawned"
    /\ downloads' = [downloads EXCEPT ![d].state = "failed", ![d].errored = TRUE]
    /\ UNCHANGED <<envVars, fsys, phase, ytdlPath, missingExecutable, folderVars,
                   titleVars, nSubmits, hudCount, lastHud>>

\* the child's streams are closed: "close" is emitted, which has no listener
ProcessClose(d) ==
    /\ d \in 1..Len(downloads)
    /\ downloads[d].state \in {"exited", "failed"}
    /\ downloads' = [downloads EXCEPT ![d].state = "closed"]
    /\ UNCHANGED <<envVars, fsys, phase, ytdlPath, missingExecutable, folderVars,
                   titleVars, nSubmits, hudCount, lastHud>>

\* a mounted session with any URL, title and folder in its fields
InitDownload ==
    /\ url \in UrlInputs
    /\ title \in IF isYouTubeUrl(url) THEN {Null, <<"T">>} ELSE {Null}
    /\ outputDir \in Dirs \cup {Empty}
    /\ fsys \in {({UsrBin} \cup {outputDir}) \ {Empty}, {outputDir} \ {Empty}}
    /\ storage = IF outputDir = Empty THEN NoItem ELSE outputDir
    /\ InitMounted

NextDownload ==
    \/ handleDownload
    \/ \E d \in 1..Len(downloads) : \E c \in Chunks : StdoutData(d, c)
    \/ \E d \in 1..Len(downloads) : \E c \in Chunks : StderrData(d, c)
    \/ \E d \in 1..Len(downloads) : \E code \in ExitCodes : ProcessExit(d, code)
    \/ \E d \in 1..Len(downloads) : ProcessError(d)
    \/ \E d \in 1..Len(downloads) : ProcessClose(d)
    \/ \E p \in fsys : Unlink(p)

SpecDownload == InitDownload /\ [][NextDownload]_vars

\* Submissions and the life of their processes alone: a session with or without
\* a URL, a folder and the executable, one progress chunk, two exit codes
ProgressChunk == <<"1", "2", ".", "3", "%">>

InitSubmit ==
    /\ url \in {Empty, <<"https://", "youtu.be", "/abc">>}
    /\ title = Null
    /\ outputDir \in {Dir1, Empty}
    /\ fsys \in {({UsrBin} \cup {outputDir}) \ {Empty}, {outputDir} \ {Empty}}
    /\ storage = IF outputDir = Empty THEN NoItem ELSE outputDir
    /\ InitMounted

NextSubmit ==
    \/ handleDownload
    \/ \E d \in 1..Len(downloads) : StdoutData(d, ProgressChunk)
    \/ \E d \in 1..Len(downloads) : \E code \in {0, 137} : ProcessExit(d, code)
    \/ \E d \in 1..Len(downloads) : ProcessError(d)
    \/ \E d \in 1..Len(downloads) : ProcessClose(d)
    \/ \E p \in fsys : Unlink(p)

SpecSubmit == InitSubmit /\ [][NextSubmit]_vars

\* C1: a submission made while the resolved path is empty or names no file on
\* disk spawns nothing and shows exactly one HUD message naming yt-dlp, also
\* when the executable was removed after the path was resolved.
C1_MissingExecutableStops ==
    [][(nSubmits' = nSubmits + 1 /\ (ytdlPath = Empty \/ ytdlPath \notin fsys))
       => /\ downloads' = downloads
          /\ hudCount' = hudCount + 1
          /\ Includes(lastHud', "yt-dlp")]_vars

\* C2: a submission checks, in this order, the executable, the URL being
\* empty, the folder being empty or gone, and the URL failing sanitization
\* (it does not parse as a URL); the first check that fails shows its own HUD
\* message and nothing is spawned; a download is spawned only when all pass.
C2_FourPreconditions ==
    [][nSubmits' = nSubmits + 1 =>
        LET stopped == downloads' = downloads /\ hudCount' = hudCount + 1
        IN  IF ExecutableMissing THEN stopped /\ lastHud' = HudExecutable
            ELSE IF url = Empty THEN stopped /\ lastHud' = HudUrl
            ELSE IF outputDir = Empty \/ outputDir \notin fsys
                 THEN stopped /\ lastHud' = HudFolder
            ELSE IF ~ParseURL(url).ok
                 THEN stopped /\ lastHud' \notin {HudExecutable, HudUrl, HudFolder}
            ELSE Len(downloads') = Len(downloads) + 1 /\ hudCount' = hudCount]_vars

\* C3: once every event of a download's process has been delivered, its
\* notification is a success exactly when the process exited with code 0, and
\* a failure when it exited with another code, with no code, or could not be
\* spawned.
C3_FinalState ==
    \A d \in 1..Len(downloads) :
        downloads[d].state = "closed" =>
            LET ok == ~downloads[d].errored /\ downloads[d].code = 0
            IN  /\ downloads[d].toast.style = "Success" <=> ok
                /\ ~ok => downloads[d].toast.style = "Failure"

\* the percentage of the specification (the pattern of src/CHANGELOG.md line
\* 279): /(\d{1,3}(?:\.\d)?)%/, leftmost match, digits and decimal taken
\* greedily
SpecifiedProgress(text) ==
    LET plain(i, k) == /\ i + k <= Len(text)
                       /\ \A j \in i..(i + k - 1) : text[j] \in Digits
                       /\ text[i + k] = "%"
        hits == {h \in (1..Len(text)) \X (1..3) \X {0, 2} :
                     IF h[3] = 2 THEN PatternAt(text, h[1], h[2]) ELSE plain(h[1], h[2])}
    IN  IF hits = {} THEN NoMatch
        ELSE LET i == CHOOSE i \in {h[1] : h \in hits} : \A h \in hits : i <= h[1]
                 at == {h \in hits : h[1] = i}
                 k == CHOOSE k \in {h[2] : h \in at} : \A h \in at : h[2] <= k
                 dec == IF <<i, k, 2>> \in at THEN 2 ELSE 0
             IN  SubSeq(text, i, i + k + dec - 1)

\* C4: while a download is in progress its message is "0%" before any output,
\* and a chunk arriving on stdout or stderr sets it to the percentage matched
\* in that chunk (one to three digits, optional decimal, then %), whatever the
\* earlier value was, and leaves it alone when the chunk holds no percentage.
C4_LatestPercentage ==
    \A d \in 1..Len(downloads) :
        /\ downloads[d].state = "spawned" => downloads[d].toast.message = <<"0", "%">>
        /\ downloads[d].state \in {"spawned", "running"} =>
               \A c \in Chunks :
                   LET expected == IF SpecifiedProgress(c) # NoMatch
                                   THEN SpecifiedProgress(c) \o <<"%">>
                                   ELSE downloads[d].toast.message
                   IN  /\ ToastAfterData(downloads[d].toast, c).message = expected
                       /\ ToastAfterStderr(downloads[d].toast, c).message = expected

\* C10: every download is started with the arguments --no-playlist, -x,
\* --audio-format mp3, --audio-quality 320k, -o <template>, <url>, the
\* template being the selected folder, unchanged, joined with
\* %(title)s.%(ext)s and the sanitized URL coming last.
C10_DownloadArguments ==
    \A d \in 1..Len(downloads) :
        Tail(downloads[d].command) =
            <<<<"--no-playlist">>, <<"-x">>, <<"--audio-format">>, <<"mp3">>,
              <<"--audio-quality">>, <<"320k">>, <<"-o">>,
              pathJoin(downloads[d].outputDir, OutputName),
              sanitizeInput(downloads[d].url)>>

\* C15: once the process of a download has exited or failed to spawn and its
\* last event has been delivered, the notification has left the in-progress
\* state: it is a success or a failure.
C15_LeavesInProgress ==
    \A d \in 1..Len(downloads) :
        downloads[d].state = "closed" =>
            downloads[d].toast.style \in {"Success", "Failure"}

\* the message of the error a failed spawn emits
SpawnErrorMessage == <<"spawn /bin/sh ENOENT">>

\* C16: a download whose process emitted a spawn-level error is a failure
\* titled "Download failed" whose message is the error's message, and stays
\* so after the close event; a failure without such an error (a non-zero
\* exit) does not carry an error message.
C16_ErrorMessage ==
    \A d \in 1..Len(downloads) :
        /\ downloads[d].errored =>
              /\ downloads[d].toast.style = "Failure"
              /\ downloads[d].toast.title = <<"Download failed">>
              /\ downloads[d].toast.message = SpawnErrorMessage
        /\ (downloads[d].toast.style = "Failure" /\ ~downloads[d].errored) =>
              downloads[d].toast.message # SpawnErrorMessage

\* the three checks of a submission all pass
PassesChecks ==
    ~ExecutableMissing /\ url # Empty /\ outputDir # Empty /\ existsSync(outputDir, fsys)

\* C17: the number of download processes grows by exactly one on every
\* submission that passes all checks, whether or not earlier downloads are
\* still running, and on no other step; the earlier downloads are left as
\* they are and the new process is started at once.
C17_OneProcessPerSubmission ==
    [][IF nSubmits' = nSubmits + 1 /\ PassesChecks
       THEN /\ Len(downloads') = Len(downloads) + 1
            /\ \A d \in 1..Len(downloads) : downloads'[d] = downloads[d]
            /\ downloads'[Len(downloads')].state = "spawned"
       ELSE Len(downloads') = Len(downloads)]_vars

\* two downloads are in progress at once, both processes running
C17_Witness ==
    /\ nSubmits = 2
    /\ Len(downloads) = 2
    /\ \A d \in 1..2 : downloads[d].state = "running" /\ downloads[d].toast.style = "Animated"

\* C18: once the notification of a download is a success or a failure, no
\* later event of its process (a chunk of output, exit, close, error) changes
\* its style, title or message.
C18_TerminalStable ==
    [][\A d \in 1..Len(downloads) :
         downloads[d].toast.style \in {"Success", "Failure"} =>
             downloads'[d].toast = downloads[d].toast]_vars

----------------------------------------------------------------------------
\* The whole command: any host, any saved folder, every operation

Init ==
    /\ platform \in Platforms
    /\ ytdlPathPreference \in Preferences
    /\ whereResult \in WhereResults
    /\ fsys \in SUBSET (ExePaths \cup Dirs)
    /\ storage \in {NoItem} \cup Dirs
    /\ savedAtStart = storage
    /\ InitComponent

Next == NextFolder \/ NextTitle \/ NextDownload

Spec == Init /\ [][Next]_vars

====
